---- MODULE Spec2Model ----
(***************************************************************************)
(* The ISP support conversation graph of isp-agents/isp_agent_system.py:   *)
(* the session (messages, user_info, next_node) kept by the checkpointer,  *)
(* the nodes of the graph (customer interaction, tool execution, router,   *)
(* billing, tech support, outage) and the edges between them.              *)
(*                                                                         *)
(* A message text is the set of the fragments it contains; the phrase      *)
(* checks of the code (`phrase in content.lower()`) are membership of the  *)
(* lower-cased fragments. The language model is an input: every call       *)
(* returns one of a small set of responses, or raises.                     *)
(***************************************************************************)
EXTENDS Naturals, Sequences, FiniteSets, TLC

VARIABLES
    messages,      \* AgentState.messages of the stored session
    user_info,     \* AgentState.user_info (verified_customer)
    next_node,     \* AgentState.next_node (pending_route)
    pc,            \* the node the graph runs next, or AwaitInput / Failed
    error,         \* the exception that ended the turn, NoError otherwise
    steps,         \* node executions of the app.invoke in progress
    turn_start,    \* the stored session when the current turn was submitted
    visited,       \* the nodes run so far in the current turn, in order
    last_step,     \* the last step taken: its node, the session before it,
                   \* and the routing model's response if it was the router
    thread,        \* the conversation identifier of the last app.invoke
    memory,        \* the MemorySaver: the stored session of every thread
    directory      \* the contents of MOCK_CUSTOMER_DB

vars == <<messages, user_info, next_node, pc, error, steps, turn_start,
          visited, last_step, thread, memory, directory>>

-----------------------------------------------------------------------------
(* Bounds of the model *)

(* a new user turn is accepted while the log holds at most MaxLog messages *)
MaxLog == 8

(* langgraph's default recursion_limit: app.invoke is called with a config
   that sets only the thread id. *)
RecursionLimit == 25

-----------------------------------------------------------------------------
(* Names *)

None == "None"
NoUserInfo == [absent |-> TRUE]

END == "__end__"
CIA == "customer_interaction_agent"
ExecuteTools == "execute_tools"
RouteRequest == "route_request"
BillingNode == "billing_agent"
TechNode == "tech_support_agent"
OutageNode == "outage_agent"
Specialists == {BillingNode, TechNode, OutageNode}
Nodes == {CIA, ExecuteTools, RouteRequest} \cup Specialists

UserInput == "user_input"
AwaitInput == "await_input"
Failed == "failed"

NoError == "none"
ModelInvocationFailure == "ModelInvocationFailure"
NameError == "NameError"
GraphRecursionError == "GraphRecursionError"

LookupToolName == "customer_lookup_tool"

-----------------------------------------------------------------------------
(* The Account Directory *)

MOCK_CUSTOMER_DB ==
    [ a \in {"12345", "67890", "55555"} |->
        CASE a = "12345" ->
               [account_id |-> "12345", name |-> "Alice Wonderland",
                address |-> "123 Rabbit Hole Lane",
                service_plan |-> "FiberOptic 500Mbps",
                modem_mac |-> "AA:BB:CC:00:11:22",
                status |-> "Active", outage |-> "Yes"]
          [] a = "67890" ->
               [account_id |-> "67890", name |-> "Bob The Builder",
                address |-> "456 Construction Way",
                service_plan |-> "Cable 100Mbps",
                modem_mac |-> "DD:EE:FF:33:44:55",
                status |-> "Active", outage |-> "No"]
          [] a = "55555" ->
               [account_id |-> "55555", name |-> "Charlie Chaplin",
                address |-> "789 Silent Film Ave",
                service_plan |-> "DSL 50Mbps",
                modem_mac |-> "GG:HH:II:66:77:88",
                status |-> "Suspended (Payment)", outage |-> "Yes"] ]

(* MOCK_CUSTOMER_DB.get(account_id): the record, or None (NoUserInfo) *)
get_customer_info(account_id) ==
    IF account_id \in DOMAIN directory
    THEN directory[account_id]
    ELSE NoUserInfo

(* a lookup that remembers the identifiers it did not find *)
DirectoryCachesMisses(dir, ids) ==
    [a \in DOMAIN dir \cup ids |->
        IF a \in DOMAIN dir THEN dir[a]
        ELSE [account_id |-> a, name |-> "Unknown", address |-> "Unknown",
              service_plan |-> "Unknown", modem_mac |-> "Unknown",
              status |-> "Unknown", outage |-> "No"]]

(* the directory after get_customer_info was called for the identifiers ids:
   the function only reads the dictionary *)
DirectoryAfterLookups(dir, ids) == dir

(* Python truthiness of user_info / retrieved_data *)
Truthy(info) == info # NoUserInfo

-----------------------------------------------------------------------------
(* Text *)

(* str.lower() on the fragments that occur in the texts of the model *)
Lower(t) ==
    CASE t = "Account ID" -> "account id"
      [] t = "Could you please provide" -> "could you please provide"
      [] t = "Let me look into that" -> "let me look into that"
      [] t = "Is there anything else?" -> "is there anything else?"
      [] OTHER -> t

(* <<p, t>>: phrase p is a proper substring of fragment t *)
SubPhrases ==
    { <<"provide", "could you please provide">>,
      <<"anything else", "is there anything else?">> }

(* `phrase in content.lower()` *)
PhraseInLower(phrase, content) ==
    \E t \in content :
        Lower(t) = phrase \/ <<phrase, Lower(t)>> \in SubPhrases

AnyPhraseInLower(phrases, content) ==
    \E p \in phrases : PhraseInLower(p, content)

-----------------------------------------------------------------------------
(* Messages *)

HumanMessage(content) ==
    [type |-> "human", content |-> content, tool_calls |-> <<>>,
     tool_call_id |-> 0, name |-> None]

AIMessage(content) ==
    [type |-> "ai", content |-> content, tool_calls |-> <<>>,
     tool_call_id |-> 0, name |-> None]

AIToolCalls(calls) ==
    [type |-> "ai", content |-> {}, tool_calls |-> calls,
     tool_call_id |-> 0, name |-> None]

ToolMessage(content, name, id) ==
    [type |-> "tool", content |-> content, tool_calls |-> <<>>,
     tool_call_id |-> id, name |-> name]

Last(s) == s[Len(s)]

(* the user turns of a log *)
Turns(msgs) == Cardinality({i \in 1..Len(msgs) : msgs[i].type = "human"})

IsPrefix(s, t) == Len(s) <= Len(t) /\ SubSeq(t, 1, Len(s)) = s

-----------------------------------------------------------------------------
(* The language model: what one call can return *)

TextPlain == {"Let me look into that"}
TextAskId == {"Could you please provide", "Account ID"}
TextVerify == {"verify"}
TextTellMe == {"tell me"}
TextClosing == {"Is there anything else?"}

ReplyTexts == {TextPlain, TextAskId, TextVerify, TextTellMe}

(* the account_id arguments of the lookup calls of one response; None is a
   call without the argument *)
LookupArgChoices ==
    { <<"12345">>, <<"99999">>, <<None>>, <<"99999", "67890">> }

RouteLabels ==
    {"RouteToBilling", "RouteToTechSupport", "RouteToOutageCheck",
     "RouteToGeneralInteraction", "RouteToEnd"}

UnknownRouteLabel == "RouteToSales"

Reply(content) == [ok |-> TRUE, content |-> content, calls |-> <<>>]
Calls(names) == [ok |-> TRUE, content |-> {}, calls |-> names]
Raises == [ok |-> FALSE, content |-> {}, calls |-> <<>>]
NotCalled == [ok |-> FALSE, content |-> {"not called"}, calls |-> <<>>]

(* self.llm.invoke(prompt): no tool is bound *)
BaseLLM == {Reply(t) : t \in ReplyTexts} \cup {Raises}

(* self.llm.bind_tools([customer_lookup_tool]).invoke(prompt) *)
ToolsLLM == BaseLLM \cup {Calls(a) : a \in LookupArgChoices}

(* self.llm.bind_tools(routing_tools).invoke(prompt) *)
RouterLLM ==
    {Calls(<<l>>) : l \in RouteLabels \cup {UnknownRouteLabel}}
        \cup {Reply(TextClosing), Reply(TextPlain), Raises}

RECURSIVE NumToolCalls(_)
NumToolCalls(msgs) ==
    IF msgs = <<>> THEN 0
    ELSE Len(Last(msgs).tool_calls) + NumToolCalls(SubSeq(msgs, 1, Len(msgs) - 1))

(* The AIMessage of a response of the tool-bound model; the provider gives
   every call an id that no earlier call of the session has. *)
ResponseMessage(resp, msgs) ==
    IF resp.calls = <<>>
    THEN AIMessage(resp.content)
    ELSE AIToolCalls([i \in 1..Len(resp.calls) |->
            [id |-> NumToolCalls(msgs) + i,
             name |-> LookupToolName,
             args |-> [account_id |-> resp.calls[i]]]])

-----------------------------------------------------------------------------
(* Graph state and node results *)

State == [messages |-> messages, user_info |-> user_info, next_node |-> next_node]

Return(upd) == [raised |-> FALSE, error |-> NoError, update |-> upd]
Raise(e) == [raised |-> TRUE, error |-> e, update |-> [next_node |-> None]]

(* a messages channel without the reducer: the update replaces the log *)
MessagesReducerReplace(old, new) == new

(* messages: Annotated[List[AnyMessage], operator.add] *)
MessagesReducer(old, new) == old \o new

(* a node's returned dict written to the channels of the state *)
ApplyUpdate(st, upd) ==
    [messages  |-> IF "messages" \in DOMAIN upd
                   THEN MessagesReducer(st.messages, upd.messages)
                   ELSE st.messages,
     user_info |-> IF "user_info" \in DOMAIN upd THEN upd.user_info ELSE st.user_info,
     next_node |-> IF "next_node" \in DOMAIN upd THEN upd.next_node ELSE st.next_node]

-----------------------------------------------------------------------------
(* tools/customer_info.py and the ToolNode *)

customer_lookup_tool(account_id) ==
    LET customer_data == get_customer_info(account_id)
    IN  IF Truthy(customer_data)
        THEN {"Successfully found customer", customer_data.name,
              customer_data.service_plan, customer_data.status}
        ELSE {"not found in the system", account_id}

(* a tool node that answers the first call of the turn twice *)
ToolNodeDuplicates(st) ==
    LET calls == Last(st.messages).tool_calls
        result == ToolMessage(
                    IF calls[1].args.account_id = None
                    THEN {"Error: invalid tool arguments"}
                    ELSE customer_lookup_tool(calls[1].args.account_id),
                    calls[1].name, calls[1].id)
    IN  Return([messages |-> <<result, result>>])

(* one ToolMessage per tool call of the last AI message, in order; a call
   without the required argument yields an error message *)
customer_tool_node(st) ==
    LET calls == Last(st.messages).tool_calls
    IN  Return([messages |->
            [i \in 1..Len(calls) |->
                ToolMessage(
                    IF calls[i].args.account_id = None
                    THEN {"Error: invalid tool arguments"}
                    ELSE customer_lookup_tool(calls[i].args.account_id),
                    calls[i].name, calls[i].id)]])

-----------------------------------------------------------------------------
(* agents/customer_interaction_agent.py *)

CIAWaitingPhrases ==
    {"account id", "account number", "could you please provide", "waiting for",
     "need your", "clarify", "what is", "tell me"}

NoCall == [id |-> 0, name |-> None, args |-> [account_id |-> None]]

(* the first call of the message, whatever its id *)
MatchingCallFirst(msg, id) ==
    IF msg.tool_calls = <<>> THEN NoCall ELSE msg.tool_calls[1]

(* next((tc for tc in msg.tool_calls if tc['id'] == id), None) *)
MatchingCall(msg, id) ==
    LET hits == {i \in 1..Len(msg.tool_calls) : msg.tool_calls[i].id = id}
    IN  IF hits = {} THEN NoCall
        ELSE msg.tool_calls[CHOOSE i \in hits : \A j \in hits : i <= j]

(* a scan that takes the nearest request turn, whatever the identifier *)
FindToolCallNearest(msgs, i, id) ==
    LET hits == {j \in 1..i : msgs[j].type = "ai" /\ msgs[j].tool_calls # <<>>}
    IN  IF hits = {} THEN NoCall
        ELSE msgs[CHOOSE j \in hits : \A k \in hits : k <= j].tool_calls[1]

(* the scan `for msg in reversed(current_messages[:-1])`, from index i down *)
RECURSIVE FindToolCall(_, _, _)
FindToolCall(msgs, i, id) ==
    IF i = 0 THEN NoCall
    ELSE LET msg == msgs[i]
             matching_call == MatchingCall(msg, id)
         IN  IF /\ msg.type = "ai"
                /\ msg.tool_calls # <<>>
                /\ matching_call # NoCall
                /\ matching_call.name = LookupToolName
             THEN matching_call
             ELSE FindToolCall(msgs, i - 1, id)

(* the data the handler stores for a lookup result turn *)
RetrievedData(msgs) ==
    LET last_message == Last(msgs)
        tool_call_msg == FindToolCall(msgs, Len(msgs) - 1, last_message.tool_call_id)
        account_id == tool_call_msg.args.account_id
    IN  IF tool_call_msg # NoCall /\ account_id # None
        THEN get_customer_info(account_id)
        ELSE NoUserInfo

(* a failure branch that leaves user_info as it was *)
LookupResultUpdateKeeps(retrieved_data, ai_response) ==
    IF Truthy(retrieved_data)
    THEN [user_info |-> retrieved_data, messages |-> <<ai_response>>]
    ELSE [messages |-> <<ai_response>>]

(* a success branch that stores the record without an acknowledgement *)
LookupResultUpdateSilent(retrieved_data, ai_response) ==
    IF Truthy(retrieved_data)
    THEN [user_info |-> retrieved_data]
    ELSE [user_info |-> NoUserInfo, messages |-> <<ai_response>>]

(* the state update of the lookup-result branch *)
LookupResultUpdate(retrieved_data, ai_response) ==
    IF Truthy(retrieved_data)
    THEN [user_info |-> retrieved_data, messages |-> <<ai_response>>]
    ELSE [user_info |-> NoUserInfo, messages |-> <<ai_response>>]

(* a handler whose verified branch calls the tool-bound model *)
CustomerInteractToolsWhenVerified(st, llm_base, llm_tools) ==
    LET last_message == Last(st.messages)
        previous_decision == st.next_node
    IN  IF /\ previous_decision = CIA
           /\ last_message.type # "tool"
           /\ last_message.type = "ai"
           /\ AnyPhraseInLower(CIAWaitingPhrases, last_message.content)
        THEN Return([next_node |-> None])
        ELSE IF last_message.type = "tool" /\ last_message.name = LookupToolName
        THEN LET retrieved_data == RetrievedData(st.messages)
             IN  IF ~llm_base.ok THEN Raise(ModelInvocationFailure)
                 ELSE Return(LookupResultUpdate(retrieved_data,
                                                AIMessage(llm_base.content)))
        ELSE IF ~llm_tools.ok THEN Raise(ModelInvocationFailure)
             ELSE Return([messages |-> <<ResponseMessage(llm_tools, st.messages)>>])

(* a handler that passes the turn whenever a Router decision is left in the
   state, without looking at the last message *)
CustomerInteractPassesAnyTurn(st, llm_base, llm_tools) ==
    LET last_message == Last(st.messages)
        previous_decision == st.next_node
    IN  IF /\ previous_decision # None
           /\ last_message.type # "tool"
        THEN Return([next_node |-> None])
        ELSE IF last_message.type = "tool" /\ last_message.name = LookupToolName
        THEN LET retrieved_data == RetrievedData(st.messages)
             IN  IF ~llm_base.ok THEN Raise(ModelInvocationFailure)
                 ELSE Return(LookupResultUpdate(retrieved_data,
                                                AIMessage(llm_base.content)))
        ELSE IF Truthy(st.user_info)
        THEN IF ~llm_base.ok THEN Raise(ModelInvocationFailure)
             ELSE Return([messages |-> <<AIMessage(llm_base.content)>>])
        ELSE IF ~llm_tools.ok THEN Raise(ModelInvocationFailure)
             ELSE Return([messages |-> <<ResponseMessage(llm_tools, st.messages)>>,
                          next_node |-> None])

(* a handler whose lookup-result branch calls the tool-bound model *)
CustomerInteractToolsAfterResult(st, llm_base, llm_tools) ==
    LET last_message == Last(st.messages)
        previous_decision == st.next_node
    IN  IF /\ previous_decision = CIA
           /\ last_message.type # "tool"
           /\ last_message.type = "ai"
           /\ AnyPhraseInLower(CIAWaitingPhrases, last_message.content)
        THEN Return([next_node |-> None])
        ELSE IF last_message.type = "tool" /\ last_message.name = LookupToolName
        THEN LET retrieved_data == RetrievedData(st.messages)
             IN  IF ~llm_tools.ok THEN Raise(ModelInvocationFailure)
                 ELSE Return(LookupResultUpdate(retrieved_data,
                                 ResponseMessage(llm_tools, st.messages)))
        ELSE IF Truthy(st.user_info)
        THEN IF ~llm_base.ok THEN Raise(ModelInvocationFailure)
             ELSE Return([messages |-> <<AIMessage(llm_base.content)>>])
        ELSE IF ~llm_tools.ok THEN Raise(ModelInvocationFailure)
             ELSE Return([messages |-> <<ResponseMessage(llm_tools, st.messages)>>,
                          next_node |-> None])

(* CustomerInteractionAgent.interact; llm_base and llm_tools are what the
   plain and the tool-bound model return if the handler calls them *)
CustomerInteract(st, llm_base, llm_tools) ==
    LET last_message == Last(st.messages)
        previous_decision == st.next_node
    IN  IF /\ previous_decision = CIA
           /\ last_message.type # "tool"
           /\ last_message.type = "ai"
           /\ AnyPhraseInLower(CIAWaitingPhrases, last_message.content)
        THEN Return([next_node |-> None])
        ELSE IF last_message.type = "tool" /\ last_message.name = LookupToolName
        THEN LET retrieved_data == RetrievedData(st.messages)
             IN  IF ~llm_base.ok THEN Raise(ModelInvocationFailure)
                 ELSE Return(LookupResultUpdate(retrieved_data,
                                                AIMessage(llm_base.content)))
        ELSE IF Truthy(st.user_info)
        THEN IF ~llm_base.ok THEN Raise(ModelInvocationFailure)
             ELSE Return([messages |-> <<AIMessage(llm_base.content)>>])
        ELSE IF ~llm_tools.ok THEN Raise(ModelInvocationFailure)
             ELSE Return([messages |-> <<ResponseMessage(llm_tools, st.messages)>>,
                          next_node |-> None])

-----------------------------------------------------------------------------
(* isp_agent_system.py: the edge after the interaction node *)

(* the waiting list without the two account phrases *)
RoutingWaitingPhrasesNoAccount ==
    {"need your", "clarify", "what is", "how can i help you today?"}

RoutingWaitingPhrases ==
    {"account id", "account number", "need your", "clarify", "what is",
     "how can i help you today?"}

(* the routing trigger without the check of user_info *)
RoutingTriggerUnverified(st) ==
    LET msgs == st.messages
    IN  /\ Len(msgs) >= 2
        /\ msgs[Len(msgs) - 1].type = "human"
        /\ Last(msgs).type = "ai"
        /\ Last(msgs).tool_calls = <<>>

(* the routing trigger without the check of the turn before the last *)
RoutingTriggerAnyPrevious(st) ==
    LET msgs == st.messages
    IN  /\ Truthy(st.user_info)
        /\ Len(msgs) >= 2
        /\ Last(msgs).type = "ai"
        /\ Last(msgs).tool_calls = <<>>

(* a routing trigger that also fires when the turn before the last is a
   lookup result *)
RoutingTriggerAfterResult(st) ==
    LET msgs == st.messages
    IN  /\ Truthy(st.user_info)
        /\ Len(msgs) >= 2
        /\ msgs[Len(msgs) - 1].type \in {"human", "tool"}
        /\ Last(msgs).type = "ai"
        /\ Last(msgs).tool_calls = <<>>

(* Priority 2: the user is verified, spoke in the turn before the last, and
   the AI just responded without a tool call *)
RoutingTrigger(st) ==
    LET msgs == st.messages
    IN  /\ Truthy(st.user_info)
        /\ Len(msgs) >= 2
        /\ msgs[Len(msgs) - 1].type = "human"
        /\ Last(msgs).type = "ai"
        /\ Last(msgs).tool_calls = <<>>

(* an edge without Priority 1: a tool-invocation request is not looked at *)
DecideWithoutToolPriority(st) ==
    LET msgs == st.messages
        last_message == Last(msgs)
    IN  IF RoutingTriggerAnyPrevious(st)
        THEN IF ~AnyPhraseInLower(RoutingWaitingPhrases, last_message.content)
             THEN RouteRequest
             ELSE END
        ELSE END

(* an edge that routes every reply of a verified customer that is no waiting
   prompt, also the one that follows a specialist's turn *)
DecideRoutesAfterSpecialist(st) ==
    LET msgs == st.messages
        last_message == Last(msgs)
    IN  IF msgs # <<>> /\ last_message.type = "ai" /\ last_message.tool_calls # <<>>
        THEN ExecuteTools
        ELSE IF /\ Truthy(st.user_info)
                /\ Len(msgs) >= 2
                /\ msgs[Len(msgs) - 1].type \in {"human", "ai"}
                /\ last_message.type = "ai"
        THEN IF ~AnyPhraseInLower(RoutingWaitingPhrases, last_message.content)
             THEN RouteRequest
             ELSE END
        ELSE END

(* an edge that ends the turn on a tool-invocation request *)
DecideEndsOnToolRequest(st) ==
    LET msgs == st.messages
        last_message == Last(msgs)
    IN  IF RoutingTrigger(st)
        THEN IF ~AnyPhraseInLower(RoutingWaitingPhrases, last_message.content)
             THEN RouteRequest
             ELSE END
        ELSE END

decide_after_interaction(st) ==
    LET msgs == st.messages
        last_message == Last(msgs)
    IN  IF msgs # <<>> /\ last_message.type = "ai" /\ last_message.tool_calls # <<>>
        THEN ExecuteTools
        ELSE IF RoutingTrigger(st)
        THEN IF ~AnyPhraseInLower(RoutingWaitingPhrases, last_message.content)
             THEN RouteRequest
             ELSE END
        ELSE END

-----------------------------------------------------------------------------
(* routing/router.py *)

ClosingPhrases == {"anything else", "how else can i help", "need more help"}
(* the override phrases without "verify" *)
IdRequestPhrasesShort == {"account id", "account number"}

IdRequestPhrases == {"account id", "account number", "verify"}

(* an override that also replaces RouteToEnd and RouteToGeneralInteraction *)
OverrideRouteAll(last_message, tool_name) ==
    IF /\ last_message.type = "ai"
       /\ AnyPhraseInLower(IdRequestPhrases, last_message.content)
    THEN "RouteToGeneralInteraction"
    ELSE tool_name

(* the tool name after the override of the router *)
OverrideRoute(last_message, tool_name) ==
    IF /\ last_message.type = "ai"
       /\ AnyPhraseInLower(IdRequestPhrases, last_message.content)
       /\ tool_name \notin {"RouteToGeneralInteraction", "RouteToEnd"}
    THEN "RouteToGeneralInteraction"
    ELSE tool_name

(* a mapping that ends the turn on an unknown name *)
RouteNodeUnknownEnds(tool_name) ==
    CASE tool_name = "RouteToBilling" -> BillingNode
      [] tool_name = "RouteToTechSupport" -> TechNode
      [] tool_name = "RouteToOutageCheck" -> OutageNode
      [] tool_name = "RouteToGeneralInteraction" -> CIA
      [] tool_name = "RouteToEnd" -> END
      [] OTHER -> END

(* a mapping that sends RouteToEnd and unknown names to the wrong node *)
RouteNodeSwapped(tool_name) ==
    CASE tool_name = "RouteToBilling" -> BillingNode
      [] tool_name = "RouteToTechSupport" -> TechNode
      [] tool_name = "RouteToOutageCheck" -> OutageNode
      [] tool_name = "RouteToGeneralInteraction" -> CIA
      [] tool_name = "RouteToEnd" -> CIA
      [] OTHER -> END

RouteNode(tool_name) ==
    CASE tool_name = "RouteToBilling" -> BillingNode
      [] tool_name = "RouteToTechSupport" -> TechNode
      [] tool_name = "RouteToOutageCheck" -> OutageNode
      [] tool_name = "RouteToGeneralInteraction" -> CIA
      [] tool_name = "RouteToEnd" -> END
      [] OTHER -> CIA

(* a router without the except branch: a failed model call propagates *)
RouteRequestPropagates(st, llm) ==
    LET last_message == Last(st.messages)
    IN  IF ~llm.ok
        THEN Raise(ModelInvocationFailure)
        ELSE IF llm.calls = <<>>
        THEN IF last_message.type = "human"
             THEN Return([next_node |-> CIA])
             ELSE IF AnyPhraseInLower(ClosingPhrases, llm.content)
             THEN Return([next_node |-> CIA])
             ELSE Return([next_node |-> END])
        ELSE Return([next_node |-> RouteNode(OverrideRoute(last_message, llm.calls[1]))])

(* AgentRouter.route_request; llm is what the routing model returns *)
route_request(st, llm) ==
    LET last_message == Last(st.messages)
    IN  IF ~llm.ok
        THEN Return([next_node |-> CIA])
        ELSE IF llm.calls = <<>>
        THEN IF last_message.type = "human"
             THEN Return([next_node |-> CIA])
             ELSE IF AnyPhraseInLower(ClosingPhrases, llm.content)
             THEN Return([next_node |-> CIA])
             ELSE Return([next_node |-> END])
        ELSE Return([next_node |-> RouteNode(OverrideRoute(last_message, llm.calls[1]))])

-----------------------------------------------------------------------------
(* agents/billing_agent.py, tech_support_agent.py, outage_agent.py *)

BillingAskId == {"verify", "Could you please provide", "Account ID"}
TechAskId == {"Could you please provide", "Account ID"}
OutageAskId == {"need your", "Account ID", "Could you please provide"}

(* a billing handler that also resets user_info *)
BillingInteractClears(st) ==
    Return([messages |-> <<AIMessage(BillingAskId)>>, user_info |-> NoUserInfo])

(* a billing handler that names the customer but not the plan *)
BillingInteractNoPlan(st) ==
    IF ~Truthy(st.user_info)
    THEN Return([messages |-> <<AIMessage(BillingAskId)>>])
    ELSE Return([messages |-> <<AIMessage({st.user_info.name,
                                           "Billing Agent is under construction"})>>])

BillingInteract(st) ==
    IF ~Truthy(st.user_info)
    THEN Return([messages |-> <<AIMessage(BillingAskId)>>])
    ELSE Return([messages |-> <<AIMessage({st.user_info.name, st.user_info.service_plan,
                                           "Billing Agent is under construction"})>>])

(* a tech support handler that also resets user_info *)
TechSupportInteractClears(st) ==
    Return([messages |-> <<AIMessage(TechAskId)>>, user_info |-> NoUserInfo])

TechSupportInteract(st) ==
    IF ~Truthy(st.user_info)
    THEN Return([messages |-> <<AIMessage(TechAskId)>>])
    ELSE Return([messages |-> <<AIMessage({st.user_info.name, st.user_info.modem_mac,
                                           "Tech Support Agent is under construction"})>>])

(* interact reads the name user_info, which the method never binds *)
OutageInteract(st) == Raise(NameError)

-----------------------------------------------------------------------------
(* isp_agent_system.py: the compiled graph, one node execution per action *)

UserTexts == {{"my internet is slow"}}

(* the conversation identifiers: run_conversation draws a new one per call *)
Threads == {"thread-a", "thread-b"}

(* the session of a thread the MemorySaver holds no checkpoint for *)
EmptySession == [messages |-> <<>>, user_info |-> NoUserInfo, next_node |-> None]

(* config = {"configurable": {"thread_id": thread_id}}: a config that names
   one thread for every conversation *)
ConfigShared(thread_id) == "thread-a"

(* the key of the checkpoints of a conversation *)
Config(thread_id) == thread_id

Init ==
    /\ directory = MOCK_CUSTOMER_DB
    /\ thread = "thread-a"
    /\ memory = [t \in Threads |-> EmptySession]
    /\ messages = <<>>
    /\ user_info = NoUserInfo
    /\ next_node = None
    /\ pc = AwaitInput
    /\ error = NoError
    /\ steps = 0
    /\ turn_start = EmptySession
    /\ visited = <<>>
    /\ last_step = [node |-> None, before |-> EmptySession, llm |-> NotCalled]

(* END of the graph: app.invoke returns and the loop reads the next input *)
Target(node) == IF node = END THEN AwaitInput ELSE node

RouterEdge == "router_edge"
InteractionEdge == "interaction_edge"
ToInteraction == "to_interaction"

(* the node an edge of the graph leads to from the state st *)
Edge(edge, st) ==
    CASE edge = InteractionEdge -> decide_after_interaction(st)
      [] edge = RouterEdge -> st.next_node
      [] edge = ToInteraction -> CIA

(* the account identifiers a node passes to get_customer_info in state st:
   the tool node one per call that carries the argument, the interaction
   node the one of the request its lookup result turn matches *)
LookedUp(node, st) ==
    IF node = ExecuteTools
    THEN {c.args.account_id : c \in {Last(st.messages).tool_calls[i] :
                                      i \in 1..Len(Last(st.messages).tool_calls)}}
             \ {None}
    ELSE IF /\ node = CIA
            /\ Last(st.messages).type = "tool"
            /\ Last(st.messages).name = LookupToolName
    THEN {FindToolCall(st.messages, Len(st.messages) - 1,
                       Last(st.messages).tool_call_id).args.account_id} \ {None}
    ELSE {}

(* One node runs: its returned dict is written to the state, which the
   checkpointer stores under the thread of the invoke, and the outgoing edge
   picks the next node. A raised exception leaves the state of the last
   completed step in the store. *)
NodeStep(node, out, edge, llm) ==
    /\ pc = node
    /\ last_step' = [node |-> node, before |-> State, llm |-> llm]
    /\ steps < RecursionLimit
    /\ visited' = Append(visited, node)
    /\ directory' = DirectoryAfterLookups(directory, LookedUp(node, State))
    /\ UNCHANGED <<turn_start, thread>>
    /\ IF out.raised
       THEN /\ pc' = Failed
            /\ error' = out.error
            /\ steps' = steps + 1
            /\ UNCHANGED <<messages, user_info, next_node, memory>>
       ELSE LET st2 == ApplyUpdate(State, out.update)
            IN  /\ messages' = st2.messages
                /\ user_info' = st2.user_info
                /\ next_node' = st2.next_node
                /\ memory' = [memory EXCEPT ![Config(thread)] = st2]
                /\ pc' = Target(Edge(edge, st2))
                /\ steps' = IF Edge(edge, st2) = END THEN 0 ELSE steps + 1
                /\ error' = NoError

(* a graph compiled without the checkpointer: every invoke starts from an
   empty state *)
ResumeFresh(stored, text) ==
    ApplyUpdate(EmptySession, [messages |-> <<HumanMessage(text)>>])

(* app = workflow.compile(memory): the state an invoke starts from is the
   stored session of the thread with the input written to it *)
Resume(stored, text) ==
    ApplyUpdate(stored, [messages |-> <<HumanMessage(text)>>])

(* app.invoke({"messages": [HumanMessage(user_input)]}, config) for the
   conversation t, accepted while its log holds at most bound messages *)
TurnOn(t, bound) ==
    /\ pc = AwaitInput
    /\ Len(memory[Config(t)].messages) <= bound
    /\ \E text \in UserTexts :
          LET st == Resume(memory[Config(t)], text)
          IN  /\ messages' = st.messages
              /\ user_info' = st.user_info
              /\ next_node' = st.next_node
              /\ memory' = [memory EXCEPT ![Config(t)] = st]
    /\ thread' = t
    /\ turn_start' = memory[Config(t)]
    /\ steps' = 0
    /\ visited' = <<>>
    /\ pc' = CIA
    /\ last_step' = [node |-> UserInput, before |-> memory[Config(t)],
                     llm |-> NotCalled]
    /\ UNCHANGED <<error, directory>>

(* run_conversation: the next input of the one conversation of the loop *)
UserTurn == TurnOn(thread, MaxLog)

(* what the plain model returns where the tool-bound one returns llm: the
   same reply, and never a tool call *)
PlainModel(llm) == IF llm \in BaseLLM THEN llm ELSE Raises

CustomerInteractionStep ==
    \E llm \in ToolsLLM :
        NodeStep(CIA, CustomerInteract(State, PlainModel(llm), llm),
                 InteractionEdge, NotCalled)

ExecuteToolsStep ==
    NodeStep(ExecuteTools, customer_tool_node(State), ToInteraction, NotCalled)

RouteStep ==
    \E llm \in RouterLLM :
        NodeStep(RouteRequest, route_request(State, llm), RouterEdge, llm)

BillingStep ==
    NodeStep(BillingNode, BillingInteract(State), ToInteraction, NotCalled)

TechSupportStep ==
    NodeStep(TechNode, TechSupportInteract(State), ToInteraction, NotCalled)

OutageStep ==
    NodeStep(OutageNode, OutageInteract(State), ToInteraction, NotCalled)

(* the graph has run recursion_limit steps without reaching END *)
RecursionStop ==
    /\ pc \in Nodes
    /\ steps >= RecursionLimit
    /\ pc' = Failed
    /\ error' = GraphRecursionError
    /\ UNCHANGED <<messages, user_info, next_node, steps, turn_start,
                   visited, last_step, thread, memory, directory>>

Next ==
    \/ UserTurn
    \/ CustomerInteractionStep
    \/ ExecuteToolsStep
    \/ RouteStep
    \/ BillingStep
    \/ TechSupportStep
    \/ OutageStep
    \/ RecursionStop

Spec == Init /\ [][Next]_vars

-----------------------------------------------------------------------------
(* The handlers as functions: every handler applied once to a session drawn
   from a bounded set of logs, customer records and pending routes *)

MaxHistory == 2

SampleMessages ==
    { HumanMessage({"my internet is slow"}),
      AIMessage(TextPlain),
      AIMessage(TextAskId),
      AIToolCalls(<<[id |-> 1, name |-> LookupToolName, args |-> [account_id |-> "12345"]]>>),
      AIToolCalls(<<[id |-> 1, name |-> LookupToolName, args |-> [account_id |-> "99999"]]>>),
      AIToolCalls(<<[id |-> 1, name |-> LookupToolName, args |-> [account_id |-> None]]>>),
      ToolMessage(customer_lookup_tool("12345"), LookupToolName, 1),
      ToolMessage(customer_lookup_tool("99999"), LookupToolName, 1),
      ToolMessage(customer_lookup_tool("12345"), LookupToolName, 2) }

SampleHistories ==
    UNION { [1..n -> SampleMessages] : n \in 1..MaxHistory }

SampleUserInfo ==
    {NoUserInfo, MOCK_CUSTOMER_DB["12345"], MOCK_CUSTOMER_DB["67890"]}

SampleNextNode == {None, CIA, BillingNode}

InitHandlers ==
    /\ directory = MOCK_CUSTOMER_DB
    /\ thread = "thread-a"
    /\ messages \in SampleHistories
    /\ user_info \in SampleUserInfo
    /\ next_node \in SampleNextNode
    /\ pc \in Nodes
    /\ pc = ExecuteTools => Last(messages).tool_calls # <<>>
    /\ error = NoError
    /\ steps = 0
    /\ turn_start = State
    /\ visited = <<>>
    /\ last_step = [node |-> None, before |-> State, llm |-> NotCalled]
    /\ memory = [t \in Threads |-> IF t = thread THEN State ELSE EmptySession]

NextHandlers ==
    /\ visited = <<>>
    /\ \/ CustomerInteractionStep
       \/ ExecuteToolsStep
       \/ RouteStep
       \/ BillingStep
       \/ TechSupportStep
       \/ OutageStep

SpecHandlers == InitHandlers /\ [][NextHandlers]_vars

-----------------------------------------------------------------------------
(* Two conversations on the one compiled graph and its MemorySaver, their
   user turns interleaved in any order; a turn runs to its end before the
   next one is submitted *)

(* user turns are submitted while the two conversations together hold fewer
   than MaxThreadTurns of them *)
MaxThreadTurns == 2

RECURSIVE TotalTurns(_)
TotalTurns(ts) ==
    IF ts = {} THEN 0
    ELSE LET t == CHOOSE x \in ts : TRUE
         IN  Turns(memory[t].messages) + TotalTurns(ts \ {t})

AnyConversationTurn ==
    /\ TotalTurns(Threads) < MaxThreadTurns
    /\ \E t \in Threads : TurnOn(t, MaxLog)

NextThreads ==
    \/ AnyConversationTurn
    \/ CustomerInteractionStep
    \/ ExecuteToolsStep
    \/ RouteStep
    \/ BillingStep
    \/ TechSupportStep
    \/ OutageStep
    \/ RecursionStop

SpecThreads == Init /\ [][NextThreads]_vars

-----------------------------------------------------------------------------
(* generated/4.py and generated/simple_flow_grok.py: what the two variant
   controllers share *)

(* MOCK_CUSTOMER_DB of the two files: the records carry no outage field *)
VariantCustomerDB ==
    [ a \in DOMAIN MOCK_CUSTOMER_DB |->
        [ f \in DOMAIN MOCK_CUSTOMER_DB[a] \ {"outage"} |-> MOCK_CUSTOMER_DB[a][f] ] ]

AttributeError == "AttributeError"

(* node executions of one app.invoke the model follows *)
MaxVariantSteps == 5

(* a new user turn of the variant with the checkpointer is accepted while
   the log holds at most MaxVariantLog messages *)
MaxVariantLog == 4

InitVariant ==
    /\ directory = VariantCustomerDB
    /\ thread = "thread-a"
    /\ memory = [t \in Threads |-> EmptySession]
    /\ messages = <<>>
    /\ user_info = NoUserInfo
    /\ next_node = None
    /\ pc = AwaitInput
    /\ error = NoError
    /\ steps = 0
    /\ turn_start = EmptySession
    /\ visited = <<>>
    /\ last_step = [node |-> None, before |-> EmptySession, llm |-> NotCalled]

(* One node of a variant graph runs and the graph moves to target; the state
   is stored after the step only if the graph was compiled with a
   checkpointer. *)
VariantStep(node, out, target, llm, checkpointer) ==
    /\ pc = node
    /\ steps < MaxVariantSteps
    /\ last_step' = [node |-> node, before |-> State, llm |-> llm]
    /\ visited' = Append(visited, node)
    /\ UNCHANGED <<turn_start, thread, directory>>
    /\ IF out.raised
       THEN /\ pc' = Failed
            /\ error' = out.error
            /\ steps' = steps + 1
            /\ UNCHANGED <<messages, user_info, next_node, memory>>
       ELSE LET st2 == ApplyUpdate(State, out.update)
            IN  /\ messages' = st2.messages
                /\ user_info' = st2.user_info
                /\ next_node' = st2.next_node
                /\ memory' = IF checkpointer
                             THEN [memory EXCEPT ![Config(thread)] = st2]
                             ELSE memory
                /\ pc' = Target(target)
                /\ steps' = IF target = END THEN 0 ELSE steps + 1
                /\ error' = NoError

(* the state after a node's result, for the edge that follows the node *)
After(out) == IF out.raised THEN State ELSE ApplyUpdate(State, out.update)

-----------------------------------------------------------------------------
(* generated/simple_flow_grok.py: the simplified verification flow *)

Interaction == "interaction"
ExecuteTool == "execute_tool"

GrokUserTexts == {{"my internet is slow"}, {"my account id is", "12345"}}

(* customer_interaction_node: the lookup-result scenario, the human-input
   scenario with its "already known" confirmation, and the fallback *)
customer_interaction_node(st, llm_base, llm_tools) ==
    LET last_message == Last(st.messages)
    IN  IF last_message.type = "tool" /\ last_message.name = LookupToolName
        THEN LET retrieved_data == RetrievedData(st.messages)
             IN  IF ~llm_base.ok THEN Raise(ModelInvocationFailure)
                 ELSE Return(LookupResultUpdate(retrieved_data,
                                                AIMessage(llm_base.content)))
        ELSE IF last_message.type = "human"
        THEN IF Truthy(st.user_info)
             THEN Return([messages |-> <<AIMessage({st.user_info.name,
                              st.user_info.service_plan,
                              "I already have your details confirmed"})>>])
             ELSE IF ~llm_tools.ok THEN Raise(ModelInvocationFailure)
                  ELSE Return([messages |-> <<ResponseMessage(llm_tools, st.messages)>>])
        ELSE Return([messages |-> <<>>])

should_continue(st) ==
    IF st.messages # <<>> /\ Last(st.messages).type = "ai"
                          /\ Last(st.messages).tool_calls # <<>>
    THEN ExecuteTool
    ELSE END

(* app = workflow.compile(): no checkpointer is passed, so app.invoke starts
   from the input alone, whatever the previous invoke returned *)
GrokInvoke(previous, text) ==
    ApplyUpdate(EmptySession, [messages |-> <<HumanMessage(text)>>])

(* run_conversation: the next input of the loop; the loop is left after an
   error *)
GrokUserTurn ==
    /\ pc = AwaitInput
    /\ \E text \in GrokUserTexts :
          LET st == GrokInvoke(State, text)
          IN  /\ messages' = st.messages
              /\ user_info' = st.user_info
              /\ next_node' = st.next_node
    /\ turn_start' = EmptySession
    /\ steps' = 0
    /\ visited' = <<>>
    /\ pc' = Interaction
    /\ last_step' = [node |-> UserInput, before |-> State, llm |-> NotCalled]
    /\ UNCHANGED <<error, thread, memory, directory>>

GrokInteractionStep ==
    \E llm \in ToolsLLM :
        LET out == customer_interaction_node(State, PlainModel(llm), llm)
        IN  VariantStep(Interaction, out, should_continue(After(out)), llm, FALSE)

GrokExecuteToolStep ==
    VariantStep(ExecuteTool, customer_tool_node(State), Interaction, NotCalled, FALSE)

NextGrok ==
    \/ GrokUserTurn
    \/ GrokInteractionStep
    \/ GrokExecuteToolStep

SpecGrok == InitVariant /\ [][NextGrok]_vars

-----------------------------------------------------------------------------
(* generated/4.py: the variant controller, where the Router follows every
   output of the interaction agent that is no tool-invocation request *)

ExecuteCustomerTool == "execute_customer_tool"
OutageCheckNode == "outage_check_agent"

(* customer_interaction_agent of 4.py: the lookup-result branch, then the
   reply of the plain model (customer known) or of the tool-bound one *)
customer_interaction_agent(st, llm_base, llm_tools) ==
    LET last_message == Last(st.messages)
    IN  IF last_message.type = "tool" /\ last_message.name = LookupToolName
        THEN LET retrieved_data == RetrievedData(st.messages)
             IN  IF ~llm_base.ok THEN Raise(ModelInvocationFailure)
                 ELSE Return(LookupResultUpdate(retrieved_data,
                                                AIMessage(llm_base.content)))
        ELSE IF Truthy(st.user_info)
        THEN IF ~llm_base.ok THEN Raise(ModelInvocationFailure)
             ELSE Return([messages |-> <<AIMessage(llm_base.content)>>])
        ELSE IF ~llm_tools.ok THEN Raise(ModelInvocationFailure)
             ELSE Return([messages |-> <<ResponseMessage(llm_tools, st.messages)>>])

(* name is guarded by `if user_info`, the plan is read with user_info.get
   whatever user_info is: None has no attribute get *)
billing_agent(st) ==
    IF Truthy(st.user_info)
    THEN Return([messages |-> <<AIMessage({st.user_info.name, st.user_info.service_plan,
                                           "Billing Agent is under construction"})>>])
    ELSE Raise(AttributeError)

tech_support_agent(st) ==
    IF Truthy(st.user_info)
    THEN Return([messages |-> <<AIMessage({st.user_info.name, st.user_info.modem_mac,
                                           "Tech Support Agent is under construction"})>>])
    ELSE Raise(AttributeError)

(* name and address are both guarded by `if user_info` *)
outage_check_agent(st) ==
    IF Truthy(st.user_info)
    THEN Return([messages |-> <<AIMessage({st.user_info.name, st.user_info.address,
                                           "Outage Agent is under construction"})>>])
    ELSE Return([messages |-> <<AIMessage({"Customer", "your area",
                                           "Outage Agent is under construction"})>>])

VariantHelpPhrases == {"how can i help", "what can i do for you", "how may i assist"}
VariantThanksPhrases == {"thank", "ok", "got it"}

VariantRouteNode(tool_name) ==
    CASE tool_name = "RouteToBilling" -> BillingNode
      [] tool_name = "RouteToTechSupport" -> TechNode
      [] tool_name = "RouteToOutageCheck" -> OutageCheckNode
      [] tool_name = "RouteToGeneralInteraction" -> CIA
      [] tool_name = "RouteToEnd" -> END
      [] OTHER -> CIA

(* route_request of 4.py; llm is what the routing model returns. The
   fallback reads the last two messages of the session; there is no
   override of the selected label. *)
route_request_v4(st, llm) ==
    LET msgs == st.messages
    IN  IF ~llm.ok
        THEN Return([next_node |-> CIA])
        ELSE IF llm.calls = <<>>
        THEN IF Last(msgs).type = "human"
             THEN Return([next_node |-> CIA])
             ELSE IF AnyPhraseInLower(VariantHelpPhrases, Last(msgs).content)
             THEN Return([next_node |-> CIA])
             ELSE IF /\ Len(msgs) >= 2
                     /\ AnyPhraseInLower(VariantThanksPhrases, msgs[Len(msgs) - 1].content)
                     /\ msgs[Len(msgs) - 1].type = "human"
             THEN Return([next_node |-> CIA])
             ELSE Return([next_node |-> END])
        ELSE Return([next_node |-> VariantRouteNode(llm.calls[1])])

(* the conditional edge after customer_interaction_agent *)
VariantAfterInteraction(st) ==
    IF Last(st.messages).type = "ai" /\ Last(st.messages).tool_calls # <<>>
    THEN ExecuteCustomerTool
    ELSE RouteRequest

(* run_conversation of 4.py: the graph is compiled with the MemorySaver and
   every invoke names the one thread of the loop *)
VariantUserTurn == TurnOn(thread, MaxVariantLog)

VariantInteractionStep ==
    \E llm \in ToolsLLM :
        LET out == customer_interaction_agent(State, PlainModel(llm), llm)
        IN  VariantStep(CIA, out, VariantAfterInteraction(After(out)), NotCalled, TRUE)

VariantExecuteStep ==
    VariantStep(ExecuteCustomerTool, customer_tool_node(State), CIA, NotCalled, TRUE)

VariantRouteStep ==
    \E llm \in RouterLLM :
        LET out == route_request_v4(State, llm)
        IN  VariantStep(RouteRequest, out, After(out).next_node, llm, TRUE)

VariantBillingStep ==
    VariantStep(BillingNode, billing_agent(State), CIA, NotCalled, TRUE)

VariantTechSupportStep ==
    VariantStep(TechNode, tech_support_agent(State), CIA, NotCalled, TRUE)

VariantOutageStep ==
    VariantStep(OutageCheckNode, outage_check_agent(State), CIA, NotCalled, TRUE)

NextVariant ==
    \/ VariantUserTurn
    \/ VariantInteractionStep
    \/ VariantExecuteStep
    \/ VariantRouteStep
    \/ VariantBillingStep
    \/ VariantTechSupportStep
    \/ VariantOutageStep

SpecVariant == InitVariant /\ [][NextVariant]_vars

-----------------------------------------------------------------------------
(* Properties *)

Before == last_step.before

(* the last step was node's, and it returned without raising *)
Completed(node) == last_step.node = node /\ pc # Failed

Range(f) == {f[i] : i \in DOMAIN f}

(* the tool-invocation requests of a log that carry the request identifier *)
RequestsWithId(msgs, id) ==
    {c \in UNION {Range(msgs[i].tool_calls) : i \in 1..Len(msgs)} : c.id = id}

(* the lookup result turn a Verification Handler step started from *)
ProcessedResult ==
    /\ Completed(CIA)
    /\ Last(Before.messages).type = "tool"

ResultSucceeded(msg) == "Successfully found customer" \in msg.content

(* C1: every step (a handler's, the lookup execution's, the Router's, a new
   user turn) leaves the previous messages as a prefix of the new messages:
   nothing is removed, replaced or reordered; the same holds from the start
   of the turn on. *)
C1_MessagesAppendOnly ==
    /\ IsPrefix(Before.messages, messages)
    /\ IsPrefix(turn_start.messages, messages)

C1_Witness ==
    /\ Completed(BillingNode)
    /\ Turns(messages) = 2
    /\ Len(messages) = Len(Before.messages) + 1
    /\ Len(Before.messages) >= 6

(* C2: when the Verification Handler has processed a lookup result turn whose
   lookup succeeded, user_info is the directory record of the account id
   carried by the one request whose id is the result turn's id. *)
C2_StoredRecordIsRequested ==
    (ProcessedResult /\ ResultSucceeded(Last(Before.messages)))
        => LET reqs == RequestsWithId(Before.messages, Last(Before.messages).tool_call_id)
           IN  /\ Cardinality(reqs) = 1
               /\ \A c \in reqs :
                     /\ c.args.account_id \in DOMAIN MOCK_CUSTOMER_DB
                     /\ user_info = MOCK_CUSTOMER_DB[c.args.account_id]

(* a success after an earlier failed lookup, the result being the second of
   two results of one request turn *)
C2_Witness ==
    /\ ProcessedResult
    /\ ResultSucceeded(Last(Before.messages))
    /\ user_info = MOCK_CUSTOMER_DB["67890"]
    /\ Last(Before.messages).tool_call_id >= 2
    /\ \E i \in 1..Len(Before.messages) :
          /\ Before.messages[i].type = "tool"
          /\ ~ResultSucceeded(Before.messages[i])

(* C3: when the Verification Handler has processed a lookup result turn whose
   request carries an identifier that does not resolve in the directory,
   user_info is absent, whatever it was before. *)
C3_FailedLookupClears ==
    LET reqs == RequestsWithId(Before.messages, Last(Before.messages).tool_call_id)
    IN  ( /\ ProcessedResult
          /\ reqs # {}
          /\ \A c \in reqs : c.args.account_id \notin DOMAIN MOCK_CUSTOMER_DB )
            => user_info = NoUserInfo

C3_Witness ==
    /\ ProcessedResult
    /\ Before.user_info = MOCK_CUSTOMER_DB["12345"]
    /\ \E c \in RequestsWithId(Before.messages, Last(Before.messages).tool_call_id) :
          c.args.account_id = "99999"
    /\ user_info = NoUserInfo

(* the text of the most recent assistant turn of a log asks for identification *)
ActiveIdRequest(msgs) ==
    \E i \in 1..Len(msgs) :
        /\ msgs[i].type = "ai"
        /\ \A j \in (i + 1)..Len(msgs) : msgs[j].type # "ai"
        /\ \E p \in {"account id", "account number", "verify"} :
              PhraseInLower(p, msgs[i].content)

(* C4: after a Router step taken while the most recent assistant turn is an
   active identification request, the decision is no specialist, whichever
   label the model selected. *)
C4_NoSpecialistDuringIdRequest ==
    (Completed(RouteRequest) /\ ActiveIdRequest(Before.messages))
        => next_node \notin Specialists /\ pc \notin Specialists

C4_Witness ==
    /\ Completed(RouteRequest)
    /\ ActiveIdRequest(Before.messages)
    /\ last_step.llm = Calls(<<"RouteToBilling">>)
    /\ next_node = CIA

(* C5: the walk a user turn triggers ends by reaching "await next input" or
   Terminated; it is never a cycle that goes on until the step limit of the
   graph cuts it. *)
C5_WalkReachesAwaitOrTerminated == error # GraphRecursionError

(* C6: when a model call has failed in a turn, the stored session is the one
   from before the turn. *)
C6_FailedTurnLeavesSession ==
    (pc = Failed /\ error = ModelInvocationFailure)
        => /\ messages = turn_start.messages
           /\ user_info = turn_start.user_info

(* C7: no specialist handler is entered, or has run, while user_info is
   absent. *)
C7_SpecialistOnlyWhenVerified ==
    /\ pc \in Specialists => Truthy(user_info)
    /\ last_step.node \in Specialists => Truthy(Before.user_info)

C7_Witness ==
    /\ pc = TechNode
    /\ Truthy(user_info)
    /\ \E i \in 1..Len(messages) :
          messages[i].type = "tool" /\ ~ResultSucceeded(messages[i])

(* C8: a step that is not the Verification Handler's (Router, lookup
   execution, specialist, new user turn) leaves user_info unchanged. *)
C8_OnlyVerificationChangesUserInfo ==
    last_step.node # CIA => user_info = Before.user_info

C8_Witness ==
    /\ Completed(BillingNode)
    /\ user_info = MOCK_CUSTOMER_DB["12345"]

FixedIdRequest(node) ==
    CASE node = BillingNode -> BillingAskId
      [] node = TechNode -> TechAskId
      [] node = OutageNode -> OutageAskId

(* C9: a specialist handler invoked with user_info absent appends exactly one
   assistant turn, its fixed request for the Account ID, and does not raise. *)
C9_SpecialistAsksForId ==
    (last_step.node \in Specialists /\ ~Truthy(Before.user_info))
        => /\ pc # Failed
           /\ messages = Before.messages \o <<AIMessage(FixedIdRequest(last_step.node))>>

(* C10: the OutageCheck step for a verified customer appends exactly one
   assistant turn that holds the customer's address, hands control to the
   Verification Handler and does not end in an error. *)
C10_OutageReferencesAddress ==
    (last_step.node = OutageNode /\ Truthy(Before.user_info))
        => /\ pc = CIA
           /\ error = NoError
           /\ Len(messages) = Len(Before.messages) + 1
           /\ IsPrefix(Before.messages, messages)
           /\ Last(messages).type = "ai"
           /\ Last(messages).tool_calls = <<>>
           /\ Before.user_info.address \in Last(messages).content

(* the turns appended to the log since the current user turn was submitted *)
TurnMessages ==
    {messages[i] : i \in (Len(turn_start.messages) + 1)..Len(messages)}

(* an assistant text turn that names the customer and the service plan *)
BillingReply(msg, info) ==
    /\ msg.type = "ai"
    /\ msg.tool_calls = <<>>
    /\ info.name \in msg.content
    /\ info.service_plan \in msg.content

(* C11: the Billing step for a verified customer appends exactly one
   assistant turn whose text holds the name and the service plan of the
   stored record, and once the user turn in which Billing ran has ended
   (awaiting input, or failed), that turn is among the turns of the log. *)
C11_BillingReferencesPlan ==
    /\ (last_step.node = BillingNode /\ Truthy(Before.user_info))
          => /\ error # NameError
             /\ Len(messages) = Len(Before.messages) + 1
             /\ IsPrefix(Before.messages, messages)
             /\ BillingReply(Last(messages), Before.user_info)
    /\ (BillingNode \in Range(visited) /\ pc \in {AwaitInput, Failed})
          => \E m \in TurnMessages : BillingReply(m, user_info)

C11_Witness ==
    /\ pc = AwaitInput
    /\ BillingNode \in Range(visited)
    /\ user_info = MOCK_CUSTOMER_DB["12345"]
    /\ \E m \in TurnMessages :
          {"Alice Wonderland", "FiberOptic 500Mbps"} \subseteq m.content
    /\ Last(messages) \in {AIMessage(t) : t \in ReplyTexts}

(* C12: after a step of Billing, TechSupport or OutageCheck the controller is
   in Verifying: the Verification Handler runs next. *)
C12_SpecialistBackToVerifying ==
    (last_step.node \in Specialists /\ error # GraphRecursionError)
        => pc = CIA

(* the controller state a Router decision stands for *)
LabelState(node) == IF node = END THEN AwaitInput ELSE node

(* the decision a known label of the routing model stands for *)
LabelDecision(label) ==
    CASE label = "RouteToBilling" -> BillingNode
      [] label = "RouteToTechSupport" -> TechNode
      [] label = "RouteToOutageCheck" -> OutageNode
      [] label = "RouteToGeneralInteraction" -> CIA
      [] label = "RouteToEnd" -> END

(* the last turn of the log is an assistant turn asking for identification *)
OverrideApplies(msgs) ==
    /\ Last(msgs).type = "ai"
    /\ \E p \in {"account id", "account number", "verify"} :
          PhraseInLower(p, Last(msgs).content)

(* C13: after a Router step the next state of the controller is the one the
   Router's decision names: a specialist, Verifying for GeneralInteraction,
   and the end of the walk for End; a known label selected by the model is
   that decision unless the override rule replaces a specialist label. *)
C13_RouterLabelDeterminesNext ==
    (last_step.node = RouteRequest /\ error # GraphRecursionError)
        => /\ pc # Failed
           /\ next_node \in Specialists \cup {CIA, END}
           /\ pc = LabelState(next_node)
           /\ next_node = END => steps = 0
           /\ \A label \in RouteLabels :
                 ( /\ last_step.llm = Calls(<<label>>)
                   /\ ~( /\ OverrideApplies(Before.messages)
                         /\ LabelDecision(label) \in Specialists ) )
                     => next_node = LabelDecision(label)

C13_Witness ==
    /\ last_step.node = RouteRequest
    /\ last_step.llm = Calls(<<"RouteToEnd">>)
    /\ pc = AwaitInput
    /\ next_node = END
    /\ visited = <<CIA, RouteRequest>>
    /\ Truthy(user_info)

(* the last turn of a log is a tool-invocation request *)
IsToolRequest(msgs) ==
    /\ msgs # <<>>
    /\ Last(msgs).type = "ai"
    /\ Last(msgs).tool_calls # <<>>

(* the last turn of a log is an assistant turn without an invocation request *)
IsAssistantText(msgs) ==
    /\ msgs # <<>>
    /\ Last(msgs).type = "ai"
    /\ Last(msgs).tool_calls = <<>>

(* C14: when the Verification Handler's output turn is a tool-invocation
   request, the lookup execution runs next, whether or not user_info is set;
   the lookup execution appends one result turn per request of that turn,
   after which the Verification Handler runs again. *)
C14_ToolRequestRunsLookup ==
    /\ (Completed(CIA) /\ IsToolRequest(messages)) => pc = ExecuteTools
    /\ IsToolRequest(messages) => decide_after_interaction(State) = ExecuteTools
    /\ (last_step.node = ExecuteTools /\ error # GraphRecursionError)
          => LET calls == Last(Before.messages).tool_calls
             IN  /\ pc = CIA
                 /\ Len(visited) >= 2 /\ visited[Len(visited) - 1] = CIA
                 /\ IsPrefix(Before.messages, messages)
                 /\ Len(messages) = Len(Before.messages) + Len(calls)
                 /\ \A i \in 1..Len(calls) :
                       /\ messages[Len(Before.messages) + i].type = "tool"
                       /\ messages[Len(Before.messages) + i].tool_call_id = calls[i].id

C14_Witness ==
    /\ Completed(CIA)
    /\ Len(visited) = 3
    /\ visited[2] = ExecuteTools
    /\ Last(Before.messages).type = "tool"
    /\ Before.messages[Len(Before.messages) - 1].type = "tool"
    /\ Truthy(user_info)

(* C15: when the Verification Handler's output is an assistant turn without
   an invocation request whose text contains "account id" or "account
   number", the turn ends awaiting the next user input and Routing is not
   entered, whether or not user_info is set. *)
C15_IdRequestEndsTurn ==
    ( /\ Completed(CIA)
      /\ IsAssistantText(messages)
      /\ \E p \in {"account id", "account number"} :
            PhraseInLower(p, Last(messages).content) )
        => pc = AwaitInput

C15_Witness ==
    /\ Completed(CIA)
    /\ Truthy(user_info)
    /\ Last(Before.messages).type = "human"
    /\ Last(messages) = AIMessage(TextAskId)
    /\ pc = AwaitInput

(* the assistant text is a waiting prompt of the edge after the handler *)
IsWaitingPrompt(content) ==
    \E p \in {"account id", "account number", "need your", "clarify",
              "what is", "how can i help you today?"} :
        PhraseInLower(p, content)

(* the condition under which Verifying is left for Routing *)
RoutingCondition(st) ==
    /\ Truthy(st.user_info)
    /\ Len(st.messages) >= 2
    /\ st.messages[Len(st.messages) - 1].type = "human"
    /\ IsAssistantText(st.messages)
    /\ ~IsWaitingPrompt(Last(st.messages).content)

(* C16: Routing is entered only from Verifying and only when user_info is
   set, the turn before the last is a user turn and the last turn is an
   assistant turn without an invocation request that is not a waiting
   prompt; in every other case where the last turn is not an invocation
   request the turn ends awaiting user input. *)
C16_RoutingOnlyWhenTriggered ==
    /\ pc = RouteRequest => last_step.node = CIA /\ RoutingCondition(State)
    /\ (Completed(CIA) /\ ~IsToolRequest(messages))
          => IF RoutingCondition(State)
             THEN pc = RouteRequest
             ELSE pc = AwaitInput

C16_Witness ==
    /\ Completed(CIA)
    /\ Truthy(user_info)
    /\ Last(messages) = AIMessage(TextPlain)
    /\ messages[Len(messages) - 1].type = "ai"
    /\ BillingNode \in Range(visited)
    /\ pc = AwaitInput

(* C17: next_node holds a label only for the transition that follows the
   Router decision: it is absent once the handler it selected has run, and
   absent whenever a user turn has ended and the next one starts. *)
C17_PendingRouteCleared ==
    /\ pc = AwaitInput => next_node = None
    /\ ( /\ last_step.node \in Specialists \cup {CIA}
         /\ pc # Failed
         /\ Before.next_node = last_step.node )
          => next_node = None

(* the text of the most recent assistant turn of a log; empty if none *)
LastAssistantText(msgs) ==
    LET ais == {i \in 1..Len(msgs) : msgs[i].type = "ai"}
    IN  IF ais = {} THEN {}
        ELSE msgs[CHOOSE i \in ais : \A j \in ais : j <= i].content

(* C18: when the routing model's response carries no intent selection, the
   decision is GeneralInteraction if the last turn of the session is a user
   turn; otherwise it is GeneralInteraction if the text of the last assistant
   turn of the conversation contains "anything else" or "how else can i
   help", and End if it does not. *)
C18_FallbackInspectsLastAssistantTurn ==
    ( /\ last_step.node = RouteRequest
      /\ error # GraphRecursionError
      /\ last_step.llm.ok
      /\ last_step.llm.calls = <<>> )
        => IF Last(Before.messages).type = "human"
           THEN next_node = CIA
           ELSE IF \E p \in {"anything else", "how else can i help"} :
                      PhraseInLower(p, LastAssistantText(Before.messages))
           THEN next_node = CIA
           ELSE next_node = END

(* C19: for a label of the routing model outside the five known ones, the
   Router's decision is GeneralInteraction, the Verification Handler runs
   next, and the step neither raises nor changes messages. *)
C19_UnknownLabelIsGeneral ==
    ( /\ last_step.node = RouteRequest
      /\ error # GraphRecursionError
      /\ last_step.llm.calls # <<>>
      /\ last_step.llm.calls[1] \notin RouteLabels )
        => /\ next_node = CIA
           /\ pc = CIA
           /\ error = NoError
           /\ messages = Before.messages
           /\ user_info = Before.user_info

C19_Witness ==
    /\ last_step.node = RouteRequest
    /\ last_step.llm = Calls(<<UnknownRouteLabel>>)
    /\ ~OverrideApplies(Before.messages)
    /\ pc = CIA
    /\ next_node = CIA

(* the log ends with a lookup result turn that no earlier request turn
   matches by identifier, or whose matching requests carry no account id *)
MalformedResult(msgs) ==
    /\ Last(msgs).type = "tool"
    /\ Last(msgs).name = LookupToolName
    /\ \A c \in RequestsWithId(SubSeq(msgs, 1, Len(msgs) - 1), Last(msgs).tool_call_id) :
          c.args.account_id = None

(* C20: when the Verification Handler has processed such a lookup result
   turn (its model call having returned), the failure branch was taken:
   user_info is absent, exactly one assistant text turn was appended, and no
   error ended the step. *)
C20_MalformedHistoryFails ==
    ( /\ last_step.node = CIA
      /\ MalformedResult(Before.messages)
      /\ error # ModelInvocationFailure )
        => /\ pc # Failed
           /\ error = NoError
           /\ user_info = NoUserInfo
           /\ Len(messages) = Len(Before.messages) + 1
           /\ IsPrefix(Before.messages, messages)
           /\ IsAssistantText(messages)

C20_Witness ==
    /\ last_step.node = CIA
    /\ pc # Failed
    /\ Before.user_info = MOCK_CUSTOMER_DB["67890"]
    /\ Last(Before.messages).tool_call_id = 2
    /\ ResultSucceeded(Last(Before.messages))
    /\ Before.messages[1].tool_calls # <<>>
    /\ Before.messages[1].tool_calls[1].args.account_id = "12345"
    /\ user_info = NoUserInfo

(* the turns a step appended to the log *)
Appended ==
    {messages[i] : i \in (Len(Before.messages) + 1)..Len(messages)}

(* C21: a Verification Handler step taken while user_info is set and the
   last turn is not a lookup result appends no tool-invocation request: what
   it appends is one assistant text turn, or nothing when it passes the
   turn. *)
C21_VerifiedNeverRequestsLookup ==
    ( /\ last_step.node = CIA
      /\ Truthy(Before.user_info)
      /\ Last(Before.messages).type # "tool" )
        => /\ \A m \in Appended : m.type = "ai" /\ m.tool_calls = <<>>
           /\ Len(messages) <= Len(Before.messages) + 1
           /\ pc # ExecuteTools

C21_Witness ==
    /\ Completed(CIA)
    /\ Truthy(Before.user_info)
    /\ Last(Before.messages).type = "human"
    /\ Len(messages) = Len(Before.messages) + 1
    /\ Last(messages) = AIMessage(TextAskId)

(* the result turns of a log that carry a request identifier *)
ResultTurns(msgs, id) ==
    {j \in 1..Len(msgs) : msgs[j].type = "tool" /\ msgs[j].tool_call_id = id}

(* the request identifiers of the request turns among the first n turns *)
RequestIds(msgs, n) ==
    UNION { {c.id : c \in Range(msgs[i].tool_calls)} :
              i \in {k \in 1..n : msgs[k].type = "ai"} }

(* C22: in the messages of every reachable state, no request identifier is
   carried by two result turns, and every result turn comes after an
   assistant turn holding a request with its identifier. *)
C22_ResultsMatchRequests ==
    /\ \A id \in RequestIds(messages, Len(messages)) :
          Cardinality(ResultTurns(messages, id)) <= 1
    /\ \A j \in 1..Len(messages) :
          messages[j].type = "tool"
              => messages[j].tool_call_id \in RequestIds(messages, j - 1)

C22_Witness ==
    /\ Cardinality({j \in 1..Len(messages) : messages[j].type = "tool"}) = 3
    /\ Cardinality({j \in 1..Len(messages) : messages[j].tool_calls # <<>>}) = 2
    /\ Completed(CIA)

(* C26: a user turn is handled first by the Verification Handler, whatever
   the previous turn left in the session, and that first step, when its
   model call returns, appends a reply to the new user turn even if a
   next_node value was left over. *)
C26_TurnStartsAtVerification ==
    /\ last_step.node = UserInput => pc = CIA
    /\ visited # <<>> => visited[1] = CIA
    /\ (last_step.node = CIA /\ Len(visited) = 1 /\ pc # Failed)
          => /\ Last(Before.messages).type = "human"
             /\ Len(messages) = Len(Before.messages) + 1
             /\ Last(messages).type = "ai"

C26_Witness ==
    /\ last_step.node = CIA
    /\ Len(visited) = 1
    /\ pc # Failed
    /\ Before.next_node = CIA
    /\ Len(messages) = Len(Before.messages) + 1
    /\ Truthy(user_info)

(* C28: when the last turn is an assistant turn asking for an account
   identifier and the routing model selects End or GeneralInteraction, the
   decision is the selected one: End ends the turn, GeneralInteraction leads
   to the Verification Handler. *)
C28_OverrideKeepsEndAndGeneral ==
    ( /\ last_step.node = RouteRequest
      /\ error # GraphRecursionError
      /\ OverrideApplies(Before.messages) )
        => /\ last_step.llm = Calls(<<"RouteToEnd">>)
                => next_node = END /\ pc = AwaitInput
           /\ last_step.llm = Calls(<<"RouteToGeneralInteraction">>)
                => next_node = CIA /\ pc = CIA

C28_Witness ==
    /\ last_step.node = RouteRequest
    /\ OverrideApplies(Before.messages)
    /\ last_step.llm = Calls(<<"RouteToEnd">>)
    /\ pc = AwaitInput

(* C29: when the routing model call raises, the Router step still completes:
   its decision is GeneralInteraction, the Verification Handler runs next,
   messages and user_info are as before the step, and no error is recorded
   for the turn. *)
C29_RouterAbsorbsModelFailure ==
    ( /\ last_step.node = RouteRequest
      /\ error # GraphRecursionError
      /\ last_step.llm = Raises )
        => /\ next_node = CIA
           /\ pc = CIA
           /\ error = NoError
           /\ messages = Before.messages
           /\ user_info = Before.user_info

C29_Witness ==
    /\ last_step.node = RouteRequest
    /\ last_step.llm = Raises
    /\ pc = CIA
    /\ error = NoError
    /\ Before.next_node # CIA

(* C30: in the main controller, once user_info holds a record it holds the
   same record after every later step and from the start of every turn to
   each of its states. *)
C30_VerifiedRecordIsKept ==
    /\ Truthy(Before.user_info) => user_info = Before.user_info
    /\ Truthy(turn_start.user_info) => user_info = turn_start.user_info

C30_Witness ==
    /\ user_info = MOCK_CUSTOMER_DB["67890"]
    /\ Turns(messages) = 3
    /\ TechNode \in Range(visited)
    /\ pc = AwaitInput

(* the step is the submission of a user turn *)
TurnSubmitted == pc = AwaitInput /\ pc' = CIA

(* C24: with two conversation identifiers whose user turns are interleaved,
   a step taken for one conversation leaves the stored session of the other
   unchanged, and a turn starts from the stored session of its own
   conversation with the user turn appended, as it does when the
   conversation runs alone. *)
C24_ConversationsAreIndependent ==
    [][ /\ \A t \in Threads \ {thread'} : memory'[t] = memory[t]
        /\ TurnSubmitted
              => \E text \in UserTexts :
                    /\ State' = Resume(memory[thread'], text)
                    /\ memory'[thread'] = State' ]_vars

C24_Witness ==
    /\ thread = "thread-b"
    /\ pc = AwaitInput
    /\ Truthy(memory["thread-b"].user_info)
    /\ memory["thread-b"] = State
    /\ memory["thread-a"].messages # <<>>
    /\ ~Truthy(memory["thread-a"].user_info)

(* C25: the user turn that follows a finished turn of the conversation
   starts from the final messages and user_info of that turn, with the new
   user turn appended and nothing else changed, also when the finished turn
   ended through the Router's End. *)
C25_SessionCarriedOver ==
    [][ TurnSubmitted
           => /\ \E text \in UserTexts :
                    messages' = messages \o <<HumanMessage(text)>>
              /\ user_info' = user_info ]_vars

C25_Witness ==
    /\ last_step.node = UserInput
    /\ turn_start.next_node = END
    /\ Truthy(user_info)
    /\ user_info = turn_start.user_info
    /\ Len(messages) = Len(turn_start.messages) + 1

(* the account identifier of the request a result turn answers *)
AccountOf(msgs, j) ==
    LET reqs == RequestsWithId(msgs, msgs[j].tool_call_id)
    IN  IF reqs = {} THEN None
        ELSE (CHOOSE c \in reqs : TRUE).args.account_id

LookupResults(msgs) ==
    {j \in 1..Len(msgs) : msgs[j].type = "tool" /\ AccountOf(msgs, j) # None}

(* C27: the directory keeps the contents it started with through every
   step; two lookups of one identifier in a session gave the same outcome,
   and a stored record is the directory's record of its account. *)
C27_DirectoryIsPure ==
    /\ directory = MOCK_CUSTOMER_DB
    /\ \A i, j \in LookupResults(messages) :
          AccountOf(messages, i) = AccountOf(messages, j)
              => messages[i].content = messages[j].content
    /\ Truthy(user_info)
          => /\ user_info.account_id \in DOMAIN MOCK_CUSTOMER_DB
             /\ user_info = MOCK_CUSTOMER_DB[user_info.account_id]

C27_Witness ==
    /\ \E i, j \in LookupResults(messages) :
          /\ i < j
          /\ AccountOf(messages, i) = "99999"
          /\ AccountOf(messages, j) = "99999"
    /\ user_info = MOCK_CUSTOMER_DB["67890"]
    /\ Completed(CIA)

(* the log holds, in this order, a request turn with a lookup request for the
   account, the result turn of that request, and directly after the result
   an assistant turn without an invocation request *)
VerificationTrail(msgs, account) ==
    \E i \in 1..Len(msgs) : \E j \in (i + 1)..(Len(msgs) - 1) :
        /\ msgs[i].type = "ai"
        /\ \E c \in Range(msgs[i].tool_calls) :
              /\ c.name = LookupToolName
              /\ c.args.account_id = account
              /\ c.id = msgs[j].tool_call_id
        /\ msgs[j].type = "tool"
        /\ msgs[j + 1].type = "ai"
        /\ msgs[j + 1].tool_calls = <<>>

(* C31: whenever user_info holds a record, messages holds a lookup request
   for that record's account id, later the result turn with the request's
   identifier, and directly after it an assistant text turn; the step that
   set user_info started from that result turn and appended that one
   assistant turn. *)
C31_VerifiedHasTrail ==
    /\ Truthy(user_info) => VerificationTrail(messages, user_info.account_id)
    /\ (Truthy(user_info) /\ user_info # Before.user_info)
          => /\ last_step.node = CIA
             /\ Last(Before.messages).type = "tool"
             /\ Len(messages) = Len(Before.messages) + 1
             /\ IsPrefix(Before.messages, messages)
             /\ IsAssistantText(messages)
             /\ \E c \in RequestsWithId(Before.messages,
                                        Last(Before.messages).tool_call_id) :
                   c.args.account_id = user_info.account_id

(* two turns after the verification, the acknowledgement in the middle of
   the log, and an earlier failed lookup in it *)
C31_Witness ==
    /\ user_info = MOCK_CUSTOMER_DB["67890"]
    /\ Turns(messages) = 2
    /\ pc = AwaitInput
    /\ messages[2].tool_calls # <<>>
    /\ Len(messages[2].tool_calls) = 2
    /\ messages[5].type = "ai"
    /\ Len(messages) >= 7

(* C32: the user turn in which the Verification Handler processes a lookup
   result ends with that step, awaiting the next input, for a successful and
   for a failed lookup alike: the step appends one assistant text turn, and
   neither the Router nor a specialist runs in a turn in which the lookup
   execution ran. *)
C32_LookupTurnEndsAfterReply ==
    /\ ( /\ last_step.node = CIA
         /\ Last(Before.messages).type = "tool"
         /\ pc # Failed )
          => /\ pc = AwaitInput
             /\ Len(messages) = Len(Before.messages) + 1
             /\ IsAssistantText(messages)
    /\ ExecuteTools \in Range(visited)
          => Range(visited) \cap ({RouteRequest} \cup Specialists) = {}

(* a successful lookup whose acknowledgement is no waiting prompt, in the
   turn after one with a failed lookup *)
C32_Witness ==
    /\ last_step.node = CIA
    /\ Last(Before.messages).type = "tool"
    /\ ResultSucceeded(Last(Before.messages))
    /\ Truthy(user_info)
    /\ Last(messages) = AIMessage(TextPlain)
    /\ pc = AwaitInput
    /\ visited = <<CIA, ExecuteTools, CIA>>
    /\ Turns(messages) = 2
    /\ \E i \in 1..Len(turn_start.messages) :
          turn_start.messages[i].type = "tool"

(* the positions of the specialist steps of the current turn *)
SpecialistSteps == {i \in 1..Len(visited) : visited[i] \in Specialists}

(* C33: a user turn holds at most one specialist step; the only step that
   follows it in the turn is one of the Verification Handler, after which
   the turn ends awaiting input without entering Routing again. *)
C33_OneSpecialistPerTurn ==
    /\ Cardinality(SpecialistSteps) <= 1
    /\ \A i \in SpecialistSteps :
          /\ Len(visited) <= i + 1
          /\ Len(visited) = i + 1 => visited[i + 1] = CIA
    /\ ( /\ last_step.node = CIA
         /\ pc # Failed
         /\ Len(visited) >= 2
         /\ visited[Len(visited) - 1] \in Specialists )
          => /\ pc = AwaitInput
             /\ Len(messages) = Len(Before.messages) + 1

(* the Router chose a specialist on its second run of the turn, after the
   Verification Handler had passed the turn back *)
C33_Witness ==
    /\ visited = <<CIA, RouteRequest, CIA, RouteRequest, TechNode, CIA>>
    /\ pc = AwaitInput
    /\ error = NoError

(* the positions of the lookup execution steps of the current turn *)
LookupSteps == {i \in 1..Len(visited) : visited[i] = ExecuteTools}

(* C34: the lookup execution runs at most once in a user turn, and the turn
   the Verification Handler appends after processing a lookup result is an
   assistant text turn, never a tool-invocation request, so the lookup
   execution is not entered again. *)
C34_OneLookupPerTurn ==
    /\ Cardinality(LookupSteps) <= 1
    /\ ( /\ last_step.node = CIA
         /\ Last(Before.messages).type = "tool"
         /\ pc # Failed )
          => /\ \A m \in Appended : m.tool_calls = <<>>
             /\ pc # ExecuteTools

(* a failed lookup: the handler has apologised, the customer is still
   unverified and the turn has ended *)
C34_Witness ==
    /\ last_step.node = CIA
    /\ pc = AwaitInput
    /\ LookupSteps = {2}
    /\ Last(Before.messages).type = "tool"
    /\ ~ResultSucceeded(Last(Before.messages))
    /\ ~Truthy(user_info)
    /\ Last(messages) = AIMessage(TextAskId)

(* a user turn has run and ended without an error *)
TurnCompleted == pc = AwaitInput /\ visited # <<>>

(* C35: when a user turn has completed without an error, the log holds the
   user's turn right after the turns it started with and at least one
   assistant turn after it, and its last element is an assistant turn
   without a tool-invocation request, so the most recent assistant turn is
   one of the current turn. *)
C35_ReplyIsOfThisTurn ==
    TurnCompleted
        => LET n == Len(turn_start.messages)
           IN  /\ Len(messages) >= n + 2
               /\ IsPrefix(turn_start.messages, messages)
               /\ messages[n + 1].type = "human"
               /\ IsAssistantText(messages)
               /\ LastAssistantText(messages) = Last(messages).content

(* a second turn that went through the Router and the billing handler: the
   reply returned is the Verification Handler's follow-up *)
C35_Witness ==
    /\ TurnCompleted
    /\ Turns(turn_start.messages) = 1
    /\ visited = <<CIA, RouteRequest, BillingNode, CIA>>
    /\ Len(messages) = Len(turn_start.messages) + 4
    /\ Last(messages) = AIMessage(TextTellMe)

(* the assistant text is a waiting phrase of the Verification Handler *)
IsHandlerWaitingText(content) ==
    \E p \in {"account id", "account number", "could you please provide",
              "waiting for", "need your", "clarify", "what is", "tell me"} :
        PhraseInLower(p, content)

(* C36: a Verification Handler step entered with next_node naming the
   handler itself and with an assistant turn last whose text contains one of
   the handler's waiting phrases appends no turn, leaves user_info as it
   was and sets next_node to absent, and the turn then ends awaiting user
   input. *)
C36_PassThroughEndsTurn ==
    ( /\ last_step.node = CIA
      /\ error # GraphRecursionError
      /\ Before.next_node = CIA
      /\ Last(Before.messages).type = "ai"
      /\ IsHandlerWaitingText(Last(Before.messages).content) )
        => /\ messages = Before.messages
           /\ user_info = Before.user_info
           /\ next_node = None
           /\ pc = AwaitInput

VariantSpecialists == {BillingNode, TechNode, OutageCheckNode}

(* C37: in the variant controller, a specialist step taken while user_info
   is absent appends exactly one assistant text turn, raises no error and
   hands control back to the Verification Handler. *)
C37_VariantSpecialistWithoutCustomer ==
    (last_step.node \in VariantSpecialists /\ ~Truthy(Before.user_info))
        => /\ pc = CIA
           /\ error = NoError
           /\ Len(messages) = Len(Before.messages) + 1
           /\ IsPrefix(Before.messages, messages)
           /\ IsAssistantText(messages)

(* C38: in the simplified verification flow, the user turn that follows a
   turn which ended with a verified customer starts from that turn's
   messages and user_info, with the new user turn appended: the customer is
   still verified when the handler takes the turn. *)
C38_VerifiedCarriedToNextTurn ==
    (last_step.node = UserInput /\ Truthy(Before.user_info))
        => /\ user_info = Before.user_info
           /\ \E text \in GrokUserTexts :
                 messages = Before.messages \o <<HumanMessage(text)>>

====
